---- MODULE Spec2Model ----
(***************************************************************************)
(* A model of bpm_diagram_madeye: the BPMN-element dispatch of Graph, the  *)
(* Subprocess constructor, Graph.remove_adjacent, remove_error_handling    *)
(* and the load / filter / save pipeline of main().                        *)
(*                                                                         *)
(* Python values are modelled as follows.                                  *)
(*  - None is the string "None"; a str is a TLA+ string; truthiness of a   *)
(*    str is "neither None nor the empty string".                          *)
(*  - An lxml element is a record of its raw tag, the attributes the code  *)
(*    reads, its taskListener descendants, its conditionExpression child   *)
(*    and its child elements.                                              *)
(*  - A raw tag string is the sequence of its lexical parts:               *)
(*    <<"{", ns, "}", local>> for "{ns}local", <<local>> for a tag with no *)
(*    namespace.                                                           *)
(*  - A graph item is one record shape for all classes, discriminated by   *)
(*    cls; fields a class does not have hold None / <<>> / -1.             *)
(*  - The dict Graph.__graph is the sequence of its values in dict order;  *)
(*    the key of a value is always its id (Graph.__add_item).              *)
(*  - A raised exception is the err field of a result record.              *)
(*  - The text of a rendered fragment is abstracted to a record of the     *)
(*    nodes and endpoints it names; labels are not modelled beyond the     *)
(*    point where computing them raises.                                   *)
(***************************************************************************)
EXTENDS Integers, Sequences, FiniteSets, TLC

VARIABLES
    pc,               \* where the run is: start, build, loaded, filtered,
                      \* saved, failed
    args,             \* the command-line flags read so far
    process_elements, \* the number of BPMN process elements of the input
    doc,              \* the child elements read from the input so far
    graph,            \* Graph.__graph of the Graph being built
    id_list,          \* the id list last passed to Graph.remove_adjacent
    filtered,         \* Graph.__graph of the Graph remove_adjacent returned
    file_open,        \* whether the output file has been opened
    file,             \* the lines written to the output file
    error,            \* the exception that ended the run
    subgraph_index    \* Subprocess.__subgraph_index

vars == <<pc, args, process_elements, doc, graph, id_list, filtered,
          file_open, file, error, subgraph_index>>

-----------------------------------------------------------------------------
(* Python values *)

None == "None"

Truthy(v) == v # None /\ v # ""

NoError == "none"
UnsuitableHandlerException == "UnsuitableHandlerException"
AttributeError == "AttributeError"
KeyError == "KeyError"
IndexError == "IndexError"
TypeError == "TypeError"
RuntimeError == "RuntimeError"

-----------------------------------------------------------------------------
(* Tag *)

BPMN_NAMESPACE == "http://www.omg.org/spec/BPMN/20100524/MODEL"
OTHER_NAMESPACE == "http://activiti.org/bpmn"

\* Tag.__repr__ of Tag(tag, namespace): f'{{{self.namespace}}}{self.tag}'
Tag_repr(tag) == <<"{", tag.namespace, "}", tag.tag>>

\* Tag(tag) with the default namespace
Tag(tag) == [namespace |-> BPMN_NAMESPACE, tag |-> tag]

\* str(Tag(local))
TagStr(local) == Tag_repr(Tag(local))

\* Tag.from_string: the regex ^{(.*)}(.*)$ ; match() returns None on a tag
\* string without the braces and .group then raises AttributeError.
Tag_from_string(tag_str) ==
    IF Len(tag_str) = 4 /\ tag_str[1] = "{" /\ tag_str[3] = "}"
    THEN [err |-> NoError, namespace |-> tag_str[2], tag |-> tag_str[4]]
    ELSE [err |-> AttributeError, namespace |-> None, tag |-> None]

Tag_from_element(element) == Tag_from_string(element.tag)

-----------------------------------------------------------------------------
(* XML elements *)

\* An element with the given raw tag and id and no other attribute or child.
Element(tag, id) ==
    [tag |-> tag, id |-> id, name |-> None, sourceRef |-> None,
     targetRef |-> None, attachedToRef |-> None, calledElement |-> None,
     condition |-> None, listeners |-> <<>>, children |-> <<>>]

\* element.attrib.get(attrib)
attrib_get(element, attrib) ==
    CASE attrib = "id" -> element.id
      [] attrib = "name" -> element.name
      [] attrib = "sourceRef" -> element.sourceRef
      [] attrib = "targetRef" -> element.targetRef
      [] attrib = "attachedToRef" -> element.attachedToRef
      [] attrib = "calledElement" -> element.calledElement
      [] OTHER -> None

\* element.attrib[a] raises KeyError for one of the attributes in attribs
MissingAttrib(element, attribs) ==
    \E i \in 1..Len(attribs) : attrib_get(element, attribs[i]) = None

-----------------------------------------------------------------------------
(* Graph items *)

NodeClasses == {"Node", "BoundaryEvent", "Gateway", "ServiceTask", "UserTask",
                "CallActivity", "IntermediateCatchEvent"}

NewItem(cls, id) ==
    [cls |-> cls, id |-> id, tag |-> <<>>, name |-> None, show_id |-> TRUE,
     colour |-> None, source_node |-> None, target_node |-> None,
     condition |-> None, attached |-> None, listeners |-> <<>>,
     children |-> <<>>, start_node |-> None, end_node |-> None, index |-> -1]

\* the value None where an item is expected
NoItem == NewItem("NoneType", None)

\* Node.__init__ (also reached through super().__init__ of the subclasses)
Node_init(cls, node_id, tag, name, show_id, colour) ==
    [NewItem(cls, node_id) EXCEPT
        !.tag = tag,
        !.name = IF Truthy(name) THEN name ELSE "<no_name>",
        !.show_id = show_id,
        !.colour = colour]

\* isinstance(item, Node)
IsNode(item) == item.cls \in NodeClasses

\* Edge.__tidy_condition is applied to condition.text; a conditionExpression
\* child without text has text None and .startswith raises AttributeError.
NoText == "<conditionExpression/>"

\* Result records of the handlers: the exception raised (or NoError), the
\* item returned and the value of Subprocess.__subgraph_index afterwards.
Return(item, idx) == [err |-> NoError, item |-> item, idx |-> idx]
Raise(err, idx) == [err |-> err, item |-> NoItem, idx |-> idx]

-----------------------------------------------------------------------------
(* Graph: container *)

\* Graph.ids
ids(g) == [i \in 1..Len(g) |-> g[i].id]

IdSet(g) == {g[i].id : i \in 1..Len(g)}

\* __add_item as a delete followed by an insert at the end
add_item_at_end(g, item) ==
    IF item.cls = "NoneType" THEN g
    ELSE Append(SelectSeq(g, LAMBDA old : old.id # item.id), item)

\* Graph.__add_item: nothing for a falsy item; otherwise a dict store, which
\* replaces the value of an existing key in place and appends a new key.
add_item(g, item) ==
    IF item.cls = "NoneType" THEN g
    ELSE IF \E i \in 1..Len(g) : g[i].id = item.id
         THEN [i \in 1..Len(g) |-> IF g[i].id = item.id THEN item ELSE g[i]]
         ELSE Append(g, item)

\* Graph.get_item / dict.get ; NoItem stands for None
get_item(g, item_id) ==
    IF \E i \in 1..Len(g) : g[i].id = item_id
    THEN g[CHOOSE i \in 1..Len(g) : g[i].id = item_id]
    ELSE NoItem

\* Graph.get_child_nodes
get_child_nodes(g) == SelectSeq(g, IsNode)

\* Graph.get_child_nodes_with_tag
get_child_nodes_with_tag(g, tag) ==
    LET HasTag(node) == node.tag = tag
    IN SelectSeq(get_child_nodes(g), HasTag)

\* get_edges with the filter on the wrong endpoint
get_edges_by_target(g, source_id) ==
    LET IsEdge(item) == item.cls = "Edge"
        ToTarget(edge) == edge.target_node = source_id
        edges == SelectSeq(g, IsEdge)
    IN IF Truthy(source_id) THEN SelectSeq(edges, ToTarget) ELSE edges

\* Graph.get_edges(source_id=...): "if source_id:" tests truthiness, so an
\* empty-string source id leaves the edge list unfiltered.
get_edges(g, source_id) ==
    LET IsEdge(item) == item.cls = "Edge"
        FromSource(edge) == edge.source_node = source_id
        edges == SelectSeq(g, IsEdge)
    IN IF Truthy(source_id) THEN SelectSeq(edges, FromSource) ELSE edges

\* get_downstream_nodes returning the edges' sources
get_downstream_nodes_sources(g, node_id) ==
    LET edges == get_edges(g, node_id)
    IN [i \in 1..Len(edges) |-> edges[i].source_node]

\* Graph.get_downstream_nodes
get_downstream_nodes(g, node_id) ==
    LET edges == get_edges(g, node_id)
    IN [i \in 1..Len(edges) |-> edges[i].target_node]

-----------------------------------------------------------------------------
(* Item constructors: the from_element class methods *)

\* Node.from_element
Node_from_element(element) ==
    Node_init("Node", element.id, element.tag, element.name, TRUE, None)

\* Edge.__init__
Edge_init(edge_id, source_node, target_node, name, condition) ==
    [NewItem("Edge", edge_id) EXCEPT
        !.name = name,
        !.source_node = source_node,
        !.target_node = target_node,
        !.condition = condition]

\* Edge.from_element; the condition text stands for its tidied form
Edge_from_element(element) ==
    Edge_init(element.id, element.sourceRef, element.targetRef,
              element.name, element.condition)

\* BoundaryEvent.from_element / BoundaryEvent.__init__
BoundaryEvent_from_element(element) ==
    [Node_init("BoundaryEvent", element.id, element.tag, element.name,
               FALSE, None)
        EXCEPT !.attached = element.attachedToRef]

\* Gateway.from_element
Gateway_from_element(element) ==
    Node_init("Gateway", element.id, element.tag, element.name, TRUE, None)

\* ServiceTask.from_element
ServiceTask_from_element(element) ==
    Node_init("ServiceTask", element.id, element.tag, element.name, TRUE,
              "#d1f4ff")

\* UserTask.from_element: one TaskListener per taskListener descendant
UserTask_from_element(element) ==
    [Node_init("UserTask", element.id, element.tag, element.name, TRUE,
               "#e8d1ff")
        EXCEPT !.listeners = element.listeners]

\* CallActivity.from_element
CallActivity_from_element(element) ==
    Node_init("CallActivity", element.id, element.tag, element.name, TRUE,
              "#ffffd1")

\* IntermediateCatchEvent.from_element
IntermediateCatchEvent_from_element(element) ==
    Node_init("IntermediateCatchEvent", element.id, element.tag,
              element.name, TRUE, "#ffd1f4")

\* Subprocess.__get_subgraph_index: the index handed out
get_subgraph_index(idx) == idx

\* Subprocess.__init__ refusing more than one start or end event
Subprocess_init_exactly_one(id, name, children, idx) ==
    LET starts == get_child_nodes_with_tag(children, TagStr("startEvent"))
        ends == get_child_nodes_with_tag(children, TagStr("endEvent"))
    IN IF Len(starts) # 1 \/ Len(ends) # 1
       THEN Raise(IndexError, idx)
       ELSE Return([NewItem("Subprocess", id) EXCEPT
                        !.name = name,
                        !.children = children,
                        !.start_node = starts[1].id,
                        !.end_node = ends[1].id,
                        !.index = get_subgraph_index(idx)],
                   idx + 1)

\* Subprocess.__init__ on an already built children graph: the first
\* startEvent and the first endEvent node of the children, [0] raising
\* IndexError on an empty list; then the next cluster index.
Subprocess_init(id, name, children, idx) ==
    LET starts == get_child_nodes_with_tag(children, TagStr("startEvent"))
        ends == get_child_nodes_with_tag(children, TagStr("endEvent"))
    IN IF starts = <<>> \/ ends = <<>>
       THEN Raise(IndexError, idx)
       ELSE Return([NewItem("Subprocess", id) EXCEPT
                        !.name = name,
                        !.children = children,
                        !.start_node = starts[1].id,
                        !.end_node = ends[1].id,
                        !.index = get_subgraph_index(idx)],
                   idx + 1)

-----------------------------------------------------------------------------
(* Element dispatch *)

\* Graph.element_has_attribs: all() over the attribute values
element_has_attribs(element, attribs) ==
    \A i \in 1..Len(attribs) : Truthy(attrib_get(element, attribs[i]))

\* Graph.element_is_subprocess
element_is_subprocess(element) == element.tag = TagStr("subProcess")

\* the module-level names handle_<local> that globals() holds
GlobalHandlers ==
    {"subProcess", "boundaryEvent", "serviceTask", "userTask", "callActivity",
     "intermediateCatchEvent", "coloured_node", "node", "edge", "gateway"}

\* Graph.TAG_HANDLERS.get(local): a handler with the colour partial() binds
TAG_HANDLERS(local) ==
    CASE local = "exclusiveGateway" -> [fn |-> "gateway", colour |-> None]
      [] local = "parallelGateway" -> [fn |-> "gateway", colour |-> None]
      [] local = "startEvent" -> [fn |-> "coloured_node", colour |-> "#d1ffd1"]
      [] local = "endEvent" -> [fn |-> "coloured_node", colour |-> "#ffd1d1"]
      [] OTHER -> [fn |-> None, colour |-> None]

\* Graph.__get_handler_fn: globals()['handle_' + local], and on KeyError the
\* TAG_HANDLERS entry or None.  fn is the handler's name without "handle_".
get_handler_fn(element) ==
    LET tag == Tag_from_element(element)
    IN IF tag.err # NoError
       THEN [err |-> tag.err, fn |-> None, colour |-> None]
       ELSE IF tag.tag \in GlobalHandlers
            THEN [err |-> NoError, fn |-> tag.tag, colour |-> None]
            ELSE [err |-> NoError, fn |-> TAG_HANDLERS(tag.tag).fn,
                  colour |-> TAG_HANDLERS(tag.tag).colour]

\* handle_node
handle_node(element, idx) ==
    IF element_has_attribs(element, <<"id">>)
    THEN Return(Node_from_element(element), idx)
    ELSE Raise(UnsuitableHandlerException, idx)

\* handle_edge; Edge.__get_condition raises on a conditionExpression
\* child that has no text
handle_edge(element, idx) ==
    IF element_has_attribs(element, <<"id", "sourceRef", "targetRef">>)
    THEN IF element.condition = NoText
         THEN Raise(AttributeError, idx)
         ELSE Return(Edge_from_element(element), idx)
    ELSE Raise(UnsuitableHandlerException, idx)

\* handle_coloured_node(colour, element)
handle_coloured_node(colour, element, idx) ==
    LET node == handle_node(element, idx)
    IN IF node.err # NoError THEN node
       ELSE Return([node.item EXCEPT !.colour = colour], idx)

\* handle_gateway
handle_gateway(element, idx) ==
    IF MissingAttrib(element, <<"id">>)
    THEN Raise(KeyError, idx)
    ELSE Return(Gateway_from_element(element), idx)

\* handle_boundaryEvent
handle_boundaryEvent(element, idx) ==
    IF element.tag = TagStr("boundaryEvent")
    THEN IF MissingAttrib(element, <<"id", "name", "attachedToRef">>)
         THEN Raise(KeyError, idx)
         ELSE Return(BoundaryEvent_from_element(element), idx)
    ELSE Raise(UnsuitableHandlerException, idx)

\* handle_serviceTask
handle_serviceTask(element, idx) ==
    IF element.tag = TagStr("serviceTask")
    THEN IF MissingAttrib(element, <<"id", "name">>)
         THEN Raise(KeyError, idx)
         ELSE Return(ServiceTask_from_element(element), idx)
    ELSE Raise(UnsuitableHandlerException, idx)

\* handle_userTask; TaskListener.from_element reads attrib['event']
handle_userTask(element, idx) ==
    IF element.tag = TagStr("userTask")
    THEN IF \/ \E i \in 1..Len(element.listeners) :
                   element.listeners[i].event = None
            \/ MissingAttrib(element, <<"id", "name">>)
         THEN Raise(KeyError, idx)
         ELSE Return(UserTask_from_element(element), idx)
    ELSE Raise(UnsuitableHandlerException, idx)

\* handle_callActivity
handle_callActivity(element, idx) ==
    IF element.tag = TagStr("callActivity")
    THEN IF MissingAttrib(element, <<"id", "name", "calledElement">>)
         THEN Raise(KeyError, idx)
         ELSE Return(CallActivity_from_element(element), idx)
    ELSE Raise(UnsuitableHandlerException, idx)

\* handle_intermediateCatchEvent
handle_intermediateCatchEvent(element, idx) ==
    IF element.tag = TagStr("intermediateCatchEvent")
    THEN IF MissingAttrib(element, <<"id", "name">>)
         THEN Raise(KeyError, idx)
         ELSE Return(IntermediateCatchEvent_from_element(element), idx)
    ELSE Raise(UnsuitableHandlerException, idx)

RECURSIVE process_element(_, _)
RECURSIVE Graph_init(_, _, _)

\* Subprocess.from_element: children = Graph(element), then the attribute
\* reads, then Subprocess.__init__
Subprocess_from_element(element, idx) ==
    LET children == Graph_init(element.children, <<>>, idx)
    IN IF children.err # NoError
       THEN Raise(children.err, children.idx)
       ELSE IF MissingAttrib(element, <<"id", "name">>)
            THEN Raise(KeyError, children.idx)
            ELSE Subprocess_init(element.id, element.name, children.graph,
                                 children.idx)

\* handle_subProcess
handle_subProcess(element, idx) ==
    IF element_is_subprocess(element)
    THEN Subprocess_from_element(element, idx)
    ELSE Raise(UnsuitableHandlerException, idx)

\* handler_fn(element) for the handler __get_handler_fn returned; the bare
\* handle_coloured_node found through globals() lacks its second argument.
call_handler(handler, element, idx) ==
    CASE handler.fn = "subProcess" -> handle_subProcess(element, idx)
      [] handler.fn = "boundaryEvent" -> handle_boundaryEvent(element, idx)
      [] handler.fn = "serviceTask" -> handle_serviceTask(element, idx)
      [] handler.fn = "userTask" -> handle_userTask(element, idx)
      [] handler.fn = "callActivity" -> handle_callActivity(element, idx)
      [] handler.fn = "intermediateCatchEvent" ->
             handle_intermediateCatchEvent(element, idx)
      [] handler.fn = "gateway" -> handle_gateway(element, idx)
      [] handler.fn = "node" -> handle_node(element, idx)
      [] handler.fn = "edge" -> handle_edge(element, idx)
      [] handler.fn = "coloured_node" ->
             IF handler.colour = None THEN Raise(TypeError, idx)
             ELSE handle_coloured_node(handler.colour, element, idx)

\* The loop over Graph.OTHER_HANDLERS = [handle_edge, handle_node]: the
\* first handler that does not raise UnsuitableHandlerException returns;
\* falling off the loop returns None.
other_handlers(element, idx) ==
    LET edge == handle_edge(element, idx)
        node == handle_node(element, idx)
    IN IF edge.err # UnsuitableHandlerException THEN edge
       ELSE IF node.err # UnsuitableHandlerException THEN node
            ELSE Return(NoItem, idx)

\* Graph.__process_element: the call of a handler found by tag is outside
\* any try block.
process_element(element, idx) ==
    LET handler_fn == get_handler_fn(element)
    IN IF handler_fn.err # NoError THEN Raise(handler_fn.err, idx)
       ELSE IF handler_fn.fn # None
            THEN call_handler(handler_fn, element, idx)
            ELSE other_handlers(element, idx)

\* Graph.__init__(root): add_element for each child in document order,
\* starting from the dict g; an exception ends the loop.
Graph_init(root, g, idx) ==
    IF root = <<>> THEN [err |-> NoError, graph |-> g, idx |-> idx]
    ELSE LET item == process_element(Head(root), idx)
         IN IF item.err # NoError
            THEN [err |-> item.err, graph |-> g, idx |-> item.idx]
            ELSE Graph_init(Tail(root), add_item(g, item.item), item.idx)

-----------------------------------------------------------------------------
(* Structural filtering *)

\* adjacent with a Subprocess that forgets its children
adjacent_without_children(item) ==
    CASE item.cls = "Edge" -> <<item.source_node, item.target_node>>
      [] OTHER -> <<item.id>>

\* the adjacent property of Node, Edge and Subprocess
adjacent(item) ==
    CASE item.cls = "Edge" -> <<item.source_node, item.target_node>>
      [] item.cls = "Subprocess" -> <<item.id>> \o ids(item.children)
      [] OTHER -> <<item.id>>

\* set(a_list)
ToSet(list) == {list[i] : i \in 1..Len(list)}

\* the loop of Graph.remove_adjacent over the items still to visit
RECURSIVE remove_adjacent_loop(_, _, _)
remove_adjacent_loop(items, id_set, result) ==
    IF items = <<>> THEN result
    ELSE LET item == Head(items)
             adjacent_set == ToSet(adjacent(item))
         IN remove_adjacent_loop(
                Tail(items), id_set,
                IF id_set \cap adjacent_set = {}
                THEN add_item(result, item) ELSE result)

\* Graph.remove_adjacent
remove_adjacent(g, ids_to_remove) ==
    remove_adjacent_loop(g, ToSet(ids_to_remove), <<>>)

\* itertools.chain(*lists)
RECURSIVE chain(_)
chain(lists) ==
    IF lists = <<>> THEN <<>> ELSE Head(lists) \o chain(Tail(lists))

\* the list event_ids that remove_error_handling passes to remove_adjacent
error_handling_ids(g, exception_subprocess_name) ==
    LET boundary_events == get_child_nodes_with_tag(g, TagStr("boundaryEvent"))
        event_ids == ids(boundary_events)
        IsException(subprocess) ==
            /\ subprocess.cls = "Subprocess"
            /\ subprocess.name = exception_subprocess_name
        sp_ids == ids(SelectSeq(g, IsException))
        downstream ==
            [i \in 1..Len(sp_ids) |-> get_downstream_nodes(g, sp_ids[i])]
    IN event_ids \o sp_ids \o chain(downstream)

\* remove_error_handling
remove_error_handling(g, exception_subprocess_name) ==
    remove_adjacent(g, error_handling_ids(g, exception_subprocess_name))

-----------------------------------------------------------------------------
(* Rendering *)

\* one rendered line: kind "text" (a = the text), "node" (a = id,
\* b = shape), "edge" (a = source, b = target, label = the label
\* components), "cluster" (n = index, a = label), "end" (the closing brace
\* of a cluster)
Line(kind, a, b, n) ==
    [kind |-> kind, a |-> a, b |-> b, n |-> n, label |-> <<>>]

Rendered(lines) == [err |-> NoError, lines |-> lines]
RenderError(err) == [err |-> err, lines |-> <<>>]

\* the start_node_id property; an Edge has none
start_node_id(item) ==
    CASE item.cls = "Subprocess" -> [err |-> NoError, id |-> item.start_node]
      [] item.cls = "Edge" -> [err |-> AttributeError, id |-> None]
      [] OTHER -> [err |-> NoError, id |-> item.id]

\* the end_node_id property; an Edge has none
end_node_id(item) ==
    CASE item.cls = "Subprocess" -> [err |-> NoError, id |-> item.end_node]
      [] item.cls = "Edge" -> [err |-> AttributeError, id |-> None]
      [] OTHER -> [err |-> NoError, id |-> item.id]

\* Edge.to_dot rendered against the dict g: "if graph:" is false for an
\* empty dict; an endpoint found in g is replaced by the found item's
\* end_node_id / start_node_id.  The label components are the name, the
\* condition and, with show_flows, the id.
Edge_to_dot(edge, g, params) ==
    LET source_item == get_item(g, edge.source_node)
        target_item == get_item(g, edge.target_node)
        source == IF g # <<>> /\ source_item.cls # "NoneType"
                  THEN end_node_id(source_item)
                  ELSE [err |-> NoError, id |-> edge.source_node]
        target == IF g # <<>> /\ target_item.cls # "NoneType"
                  THEN start_node_id(target_item)
                  ELSE [err |-> NoError, id |-> edge.target_node]
        label_components ==
            (IF Truthy(edge.name) THEN <<edge.name>> ELSE <<>>)
            \o (IF Truthy(edge.condition) THEN <<edge.condition>> ELSE <<>>)
            \o (IF params.show_flows THEN <<edge.id>> ELSE <<>>)
    IN IF source.err # NoError THEN RenderError(source.err)
       ELSE IF target.err # NoError THEN RenderError(target.err)
            ELSE Rendered(<<[Line("edge", source.id, target.id, -1)
                               EXCEPT !.label = label_components]>>)

\* UserTask.get_label raises when a listener line is built from a
\* TaskListener without class attribute: __get_class_name calls
\* class_name.split unless show_package_names is set.
UserTask_get_label_raises(item, params) ==
    /\ params.show_task_listeners
    /\ ~params.show_package_names
    /\ \E i \in 1..Len(item.listeners) : item.listeners[i].class_name = None

\* to_dot of the Node family
Node_to_dot(item, g, params) ==
    CASE item.cls = "BoundaryEvent" ->
             LET edge == Edge_to_dot(
                             Edge_init("boundary", item.attached, item.id,
                                       None, None),
                             g, params)
             IN IF edge.err # NoError THEN edge
                ELSE Rendered(<<Line("node", item.id, "circle", -1)>>
                              \o edge.lines)
      [] item.cls = "Gateway" ->
             IF Tag_from_string(item.tag).err # NoError
             THEN RenderError(Tag_from_string(item.tag).err)
             ELSE Rendered(<<Line("node", item.id, "diamond", -1)>>)
      [] item.cls = "UserTask" ->
             IF UserTask_get_label_raises(item, params)
             THEN RenderError(AttributeError)
             ELSE Rendered(<<Line("node", item.id, "ellipse", -1)>>)
      [] OTHER -> Rendered(<<Line("node", item.id, "box", -1)>>)

RECURSIVE Graph_to_dot(_, _, _)

\* Subprocess.to_dot: the cluster header, the children rendered against
\* the same dict g, the closing brace
Subprocess_to_dot(item, g, params) ==
    LET children == Graph_to_dot(item.children, g, params)
    IN IF children.err # NoError THEN children
       ELSE Rendered(<<Line("cluster", item.name, None, item.index)>>
                     \o children.lines \o <<Line("end", "}", None, -1)>>)

\* item.to_dot(graph=g, params=params)
to_dot(item, g, params) ==
    CASE item.cls = "Edge" -> Edge_to_dot(item, g, params)
      [] item.cls = "Subprocess" -> Subprocess_to_dot(item, g, params)
      [] OTHER -> Node_to_dot(item, g, params)

\* Graph.to_dot over the values items: the fragments in dict order
Graph_to_dot(items, g, params) ==
    IF items = <<>> THEN Rendered(<<>>)
    ELSE LET first == to_dot(Head(items), g, params)
             rest == Graph_to_dot(Tail(items), g, params)
         IN IF first.err # NoError THEN first
            ELSE IF rest.err # NoError THEN rest
                 ELSE Rendered(first.lines \o rest.lines)

\* Graph.DOT_HEADERS after the opening line
DOT_HEADERS ==
    <<Line("text", "digraph G {", None, -1),
      Line("text", "fontname = \"sans\"", None, -1),
      Line("text", "node[shape = \"box\", fontname = \"sans\"]", None, -1),
      Line("text", "edge[fontname = \"sans\"]", None, -1)>>

\* Graph.save: what the file holds when the with block is left.  The file
\* is opened and the headers are written before to_dot is evaluated.
Graph_save(g, params) ==
    LET body == Graph_to_dot(g, g, params)
    IN IF body.err # NoError
       THEN [err |-> body.err, file |-> DOT_HEADERS]
       ELSE [err |-> NoError,
             file |-> DOT_HEADERS \o body.lines
                      \o <<Line("text", "}", None, -1)>>]

-----------------------------------------------------------------------------
(* Documents: the elements the model feeds to the program *)

HandleException == "Handle Exception"
Other == "Other"

\* raw tag strings: in the BPMN namespace, in a foreign one, in none
Bpmn(local) == TagStr(local)
Foreign(local) == <<"{", OTHER_NAMESPACE, "}", local>>
Bare(local) == <<local>>

Task(id) == [Element(Bpmn("task"), id) EXCEPT !.name = "t"]
StartEvent(id) == Element(Bpmn("startEvent"), id)
EndEvent(id) == Element(Bpmn("endEvent"), id)
Flow(id, source, target) ==
    [Element(Bpmn("sequenceFlow"), id) EXCEPT
        !.sourceRef = source, !.targetRef = target]
Boundary(id, attached) ==
    [Element(Bpmn("boundaryEvent"), id) EXCEPT
        !.name = "error", !.attachedToRef = attached]
SubProcess(id, name, children) ==
    [Element(Bpmn("subProcess"), id) EXCEPT
        !.name = name, !.children = children]
UserTaskElement(id, class_name) ==
    [Element(Bpmn("userTask"), id) EXCEPT
        !.name = "u",
        !.listeners = <<[event |-> "create", class_name |-> class_name]>>]

\* bounds of the model
MaxProcess == 2
MaxElems == 3
MaxItems == 6
MaxAdjItems == 3
MaxChildren == 3

\* all sequences over S of length at most n
SeqsUpTo(S, n) == UNION {[1..k -> S] : k \in 0..n}

\* The pipeline's documents: a task, a boundary event on it, a user task
\* whose listener has an expression and no class, a serviceTask of a
\* foreign namespace, an element without attributes, an exception subprocess s with a nested subprocess
\* n, a flow e, and flows f between a task (a), the two subprocesses
\* (s, n) and the flow e.
PipelineEndpoints == {"a", "s", "n", "e"}

PipelineElements ==
    {Task("a"), Boundary("b", "a"), UserTaskElement("u", None),
     [Element(Foreign("serviceTask"), "t") EXCEPT !.name = "t"],
     Element(Bpmn("extensionElements"), None),
     SubProcess("s", HandleException,
                <<StartEvent("s0"), EndEvent("s1"),
                  SubProcess("n", Other,
                             <<StartEvent("n0"), EndEvent("n1")>>)>>)}
    \cup {Flow("e", "a", "a")}
    \cup {Flow("f", "a", target) : target \in PipelineEndpoints}
    \cup {Flow("f", source, "a") : source \in PipelineEndpoints}

\* The documents of the filtering specifications: tasks a and x, a
\* boundary event b on a, a subprocess s under either name, an exception
\* subprocess whose id is the empty string and which has a child x, flows
\* e and f.
FilterElements ==
    {Task("a"), Task("x"), Boundary("b", "a"),
     SubProcess("s", HandleException, <<StartEvent("s0"), EndEvent("s1")>>),
     SubProcess("s", Other, <<StartEvent("s0"), EndEvent("s1")>>),
     SubProcess("", HandleException, <<StartEvent("x"), EndEvent("s1")>>)}
    \cup {Flow("e", source, target) :
            source \in {"b", "x"}, target \in {"s", "a"}}
    \cup {Flow("f", "s", target) : target \in {"a", "x"}}

\* the id lists remove_adjacent is called with
AdjacentIds == <<"a", "x", "s", "s0">>

\* one list for every set of those ids
AdjacentLists ==
    {SelectSeq(AdjacentIds, LAMBDA id : id \in id_set) :
        id_set \in SUBSET ToSet(AdjacentIds)}

\* The elements of the dispatch specification: every combination of a tag
\* and of the attributes the generic handlers look at ...
DispatchLocals ==
    {"task", "sequenceFlow", "edge", "serviceTask", "startEvent",
     "exclusiveGateway", "boundaryEvent"}

DispatchTags ==
    {Bpmn(local) : local \in DispatchLocals}
    \cup {Foreign(local) : local \in DispatchLocals}
    \cup {Bare(local) : local \in {"task", "serviceTask"}}

GenericElements ==
    {[Element(tag, id) EXCEPT !.name = name, !.sourceRef = source,
                              !.targetRef = target, !.attachedToRef = name,
                              !.condition = condition] :
        tag \in DispatchTags, id \in {None, "", "a"}, name \in {None, "t"},
        source \in {None, "a"}, target \in {None, "", "b"},
        condition \in {None, NoText}}

\* ... and every subProcess over a short sequence of start events, end
\* events and a task that shares its id with a start event.
ChildElements ==
    {StartEvent("s0"), StartEvent("s2"), EndEvent("s1"), EndEvent("s3"),
     Task("s0")}

SubProcessElements ==
    {SubProcess("s", Other, children) :
        children \in SeqsUpTo(ChildElements, MaxChildren)}

DispatchElements == GenericElements \cup SubProcessElements

-----------------------------------------------------------------------------
(* State and operations *)

\* argparse's defaults
DefaultArgs ==
    [show_flows |-> FALSE, show_error_handling |-> FALSE,
     show_package_names |-> FALSE, show_task_listeners |-> FALSE,
     exception_subprocess_name |-> HandleException]

\* the process before main() has read anything of an input
Init ==
    /\ pc = "start"
    /\ args = DefaultArgs
    /\ process_elements \in 0..MaxProcess
    /\ doc = <<>>
    /\ graph = <<>>
    /\ id_list = <<>>
    /\ filtered = <<>>
    /\ file_open = FALSE
    /\ file = <<>>
    /\ error = NoError
    /\ subgraph_index = 0

\* Graph.load accepting any document that has a process element
Load_at_least_one ==
    /\ pc = "start"
    /\ IF process_elements < 1
       THEN pc' = "failed" /\ error' = RuntimeError
       ELSE pc' = "build" /\ error' = error
    /\ UNCHANGED <<args, process_elements, doc, graph, id_list, filtered,
                   file_open, file, subgraph_index>>

\* Graph.load up to the length test on the process elements that the
\* xpath //bpm:process finds
Load ==
    /\ pc = "start"
    /\ IF process_elements # 1
       THEN pc' = "failed" /\ error' = RuntimeError
       ELSE pc' = "build" /\ error' = error
    /\ UNCHANGED <<args, process_elements, doc, graph, id_list, filtered,
                   file_open, file, subgraph_index>>

\* Graph.add_element for the next child of the root, inside the loop of
\* Graph.__init__
add_element(element) ==
    /\ pc = "build"
    /\ LET item == process_element(element, subgraph_index)
       IN /\ subgraph_index' = item.idx
          /\ IF item.err # NoError
             THEN pc' = "failed" /\ error' = item.err /\ graph' = graph
             ELSE pc' = pc /\ error' = error
                  /\ graph' = add_item(graph, item.item)
    /\ UNCHANGED <<args, process_elements, id_list, filtered, file_open,
                   file>>

\* the loop of Graph.__init__ ends and Graph.load returns the Graph
load_return ==
    /\ pc = "build"
    /\ pc' = "loaded"
    /\ UNCHANGED <<args, process_elements, doc, graph, id_list, filtered,
                   file_open, file, error, subgraph_index>>

\* main(), lines 56-57, run with --show-error-handling or without
Filter(show_error_handling) ==
    /\ pc = "loaded"
    /\ pc' = "filtered"
    /\ args' = [args EXCEPT !.show_error_handling = show_error_handling]
    /\ IF ~show_error_handling
       THEN /\ id_list' = error_handling_ids(
                              graph, args.exception_subprocess_name)
            /\ filtered' = remove_error_handling(
                               graph, args.exception_subprocess_name)
       ELSE /\ id_list' = id_list
            /\ filtered' = graph
    /\ UNCHANGED <<process_elements, doc, graph, file_open, file, error,
                   subgraph_index>>

\* main(), line 59: graph.save with the params of the command line
Save(show_flows, show_package_names, show_task_listeners) ==
    /\ pc = "filtered"
    /\ LET params == [show_flows |-> show_flows,
                      show_package_names |-> show_package_names,
                      show_task_listeners |-> show_task_listeners]
           saved == Graph_save(filtered, params)
       IN /\ args' = [args EXCEPT
                         !.show_flows = show_flows,
                         !.show_package_names = show_package_names,
                         !.show_task_listeners = show_task_listeners]
          /\ file_open' = TRUE
          /\ file' = saved.file
          /\ error' = saved.err
          /\ pc' = IF saved.err # NoError THEN "failed" ELSE "saved"
    /\ UNCHANGED <<process_elements, doc, graph, id_list, filtered,
                   subgraph_index>>

\* a call of Graph.remove_adjacent on the graph built so far
RemoveAdjacent(ids_to_remove) ==
    /\ pc = "build"
    /\ pc' = "filtered"
    /\ id_list' = ids_to_remove
    /\ filtered' = remove_adjacent(graph, ids_to_remove)
    /\ UNCHANGED <<args, process_elements, doc, graph, file_open, file,
                   error, subgraph_index>>

\* a call of remove_error_handling on the graph built so far
RemoveErrorHandling ==
    /\ pc = "build"
    /\ pc' = "filtered"
    /\ id_list' = error_handling_ids(graph, args.exception_subprocess_name)
    /\ filtered' = remove_error_handling(
                       graph, args.exception_subprocess_name)
    /\ UNCHANGED <<args, process_elements, doc, graph, file_open, file,
                   error, subgraph_index>>

-----------------------------------------------------------------------------
(* Specifications *)

\* main(): load, build, filter, save
\* doc records the children of the process element read so far; the
\* children of a document are pairwise different elements
ReadElement ==
    /\ Len(doc) < MaxElems
    /\ \E element \in PipelineElements \ ToSet(doc) :
           add_element(element) /\ doc' = Append(doc, element)
FilterGraph == \E show \in BOOLEAN : Filter(show)
SaveGraph == \E flows \in BOOLEAN, packages \in BOOLEAN,
                listeners \in BOOLEAN : Save(flows, packages, listeners)

Next == Load \/ ReadElement \/ load_return \/ FilterGraph \/ SaveGraph

Spec == Init /\ [][Next]_vars

\* a Graph under construction, outside main()
InitGraph ==
    /\ pc = "build"
    /\ args = DefaultArgs
    /\ process_elements = 1
    /\ doc = <<>>
    /\ graph = <<>>
    /\ id_list = <<>>
    /\ filtered = <<>>
    /\ file_open = FALSE
    /\ file = <<>>
    /\ error = NoError
    /\ subgraph_index = 0

\* the dispatch of one element into an empty Graph or into a Graph that
\* holds the task a
InitDispatch ==
    /\ pc = "build"
    /\ args = DefaultArgs
    /\ process_elements = 1
    /\ doc = <<>>
    /\ graph \in {<<>>, Graph_init(<<Task("a")>>, <<>>, 0).graph}
    /\ id_list = <<>>
    /\ filtered = <<>>
    /\ file_open = FALSE
    /\ file = <<>>
    /\ error = NoError
    /\ subgraph_index = 0

\* doc records the element dispatched
DispatchElement ==
    /\ doc = <<>>
    /\ \E element \in DispatchElements :
           add_element(element) /\ doc' = Append(doc, element)

NextDispatch == DispatchElement

SpecDispatch == InitDispatch /\ [][NextDispatch]_vars

\* remove_error_handling on the graphs built from FilterElements, the ids
\* of a document being distinct
AddFilterElement ==
    /\ Len(graph) < MaxItems
    /\ \E element \in FilterElements :
           /\ element.id \notin IdSet(graph)
           /\ add_element(element) /\ UNCHANGED doc

NextFilter == AddFilterElement \/ RemoveErrorHandling

SpecFilter == InitGraph /\ [][NextFilter]_vars

\* remove_adjacent on the graphs built from FilterElements, the ids of a
\* document being distinct
AddAdjacentElement ==
    /\ Len(graph) < MaxAdjItems
    /\ \E element \in FilterElements :
           /\ element.id \notin IdSet(graph)
           /\ add_element(element) /\ UNCHANGED doc

RemoveAdjacentIds ==
    \E ids_to_remove \in AdjacentLists : RemoveAdjacent(ids_to_remove)

NextAdjacent == AddAdjacentElement \/ RemoveAdjacentIds

SpecAdjacent == InitGraph /\ [][NextAdjacent]_vars

\* main() called repeatedly in one Python process: the documents of the
\* runs are built from RunElements, the ids of a document being distinct
MaxClusters == 2

RunElements ==
    {Task("a"), Flow("e", "a", "s"),
     SubProcess("s", Other, <<StartEvent("s0"), EndEvent("s1")>>),
     SubProcess("p", Other,
                <<StartEvent("p0"), EndEvent("p1"),
                  SubProcess("n", Other,
                             <<StartEvent("n0"), EndEvent("n1")>>)>>)}

ReadRunElement ==
    /\ Len(doc) < MaxElems
    /\ \E element \in RunElements :
           /\ \A i \in 1..Len(doc) : doc[i].id # element.id
           /\ add_element(element) /\ doc' = Append(doc, element)

\* a further call of main() after the previous one has returned or has
\* raised: every local of main() is new, the output of the new run is not
\* yet opened, and the class attribute Subprocess.__subgraph_index, which
\* no statement of the program resets, keeps its value
main_again ==
    /\ pc \in {"saved", "failed"}
    /\ subgraph_index < MaxClusters
    /\ pc' = "start"
    /\ args' = DefaultArgs
    /\ process_elements' \in 0..MaxProcess
    /\ doc' = <<>>
    /\ graph' = <<>>
    /\ id_list' = <<>>
    /\ filtered' = <<>>
    /\ file_open' = FALSE
    /\ file' = <<>>
    /\ error' = NoError
    /\ UNCHANGED subgraph_index

NextRuns ==
    Load \/ ReadRunElement \/ load_return \/ FilterGraph \/ SaveGraph
        \/ main_again

SpecRuns == Init /\ [][NextRuns]_vars

-----------------------------------------------------------------------------
(* Properties of Graph.remove_adjacent and remove_error_handling *)

\* the ids a graph item touches, class by class
Touches(item, id_set) ==
    CASE item.cls = "Edge" ->
             item.source_node \in id_set \/ item.target_node \in id_set
      [] item.cls = "Subprocess" ->
             \/ item.id \in id_set
             \/ \E i \in 1..Len(item.children) :
                    item.children[i].id \in id_set
      [] OTHER -> item.id \in id_set

\* the items of g that touch no id of id_set, in the order of g
Untouched(g, id_set) == SelectSeq(g, LAMBDA item : ~Touches(item, id_set))

\* C1: after remove_adjacent(S) the returned Graph holds exactly the items
\* of the input graph that touch no id of S (an Edge by either endpoint, a
\* Subprocess by its own id or a direct child's id), in the input order.
C1_RemoveAdjacentExact ==
    pc = "filtered" => filtered = Untouched(graph, ToSet(id_list))

\* C1 witness: a call with a non-empty id set that drops a Subprocess
\* because of a child id only and keeps at least two items.
C1_Witness ==
    /\ pc = "filtered"
    /\ id_list # <<>>
    /\ Len(filtered) >= 2
    /\ \E i \in 1..Len(graph) :
           /\ graph[i].cls = "Subprocess"
           /\ graph[i].id \notin ToSet(id_list)
           /\ graph[i].id \notin IdSet(filtered)

\* the removal set as the specification words it: the boundary events,
\* the subprocesses of the given name, the targets of the edges that leave
\* one of those subprocesses
RemovalSet(g, name) ==
    LET boundary == {g[i].id : i \in {j \in 1..Len(g) :
                                          g[j].cls = "BoundaryEvent"}}
        subprocesses == {g[i].id : i \in {j \in 1..Len(g) :
                             g[j].cls = "Subprocess" /\ g[j].name = name}}
        targets == {g[i].target_node : i \in {j \in 1..Len(g) :
                        /\ g[j].cls = "Edge"
                        /\ g[j].source_node \in subprocesses}}
    IN boundary \cup subprocesses \cup targets

\* the same with the one case added in which the code differs: for a
\* subprocess of that name whose id is the empty string the targets of
\* all edges are taken
RemovalSetAmended(g, name) ==
    LET emptyId == \E i \in 1..Len(g) :
                       /\ g[i].cls = "Subprocess"
                       /\ g[i].name = name
                       /\ g[i].id = ""
    IN RemovalSet(g, name)
       \cup {g[i].target_node : i \in {j \in 1..Len(g) :
                 g[j].cls = "Edge" /\ emptyId}}

\* a boundary event B attached to the item A leads, by an edge, to the
\* subprocess SP of the exception name
ErrorHandlingCase(g, A, B, SP) ==
    /\ g[B].cls = "BoundaryEvent"
    /\ g[B].attached = g[A].id
    /\ g[SP].cls = "Subprocess"
    /\ g[SP].name = args.exception_subprocess_name
    /\ \E i \in 1..Len(g) : /\ g[i].cls = "Edge"
                            /\ g[i].source_node = g[B].id
                            /\ g[i].target_node = g[SP].id

\* B, SP and the targets of the edges that leave SP are gone
RegionRemoved(g, B, SP) ==
    /\ g[B].id \notin IdSet(filtered)
    /\ g[SP].id \notin IdSet(filtered)
    /\ \A i \in 1..Len(g) :
           (g[i].cls = "Edge" /\ g[i].source_node = g[SP].id)
               => g[i].target_node \notin IdSet(filtered)

\* C2 as stated: in every such case remove_error_handling returns a graph
\* without B, SP and the targets of the edges leaving SP, and with A and
\* with every item that touches nothing of the error-handling region.
C2_Original ==
    pc = "filtered" =>
        \A A \in 1..Len(graph), B \in 1..Len(graph), SP \in 1..Len(graph) :
            ErrorHandlingCase(graph, A, B, SP) =>
                /\ RegionRemoved(graph, B, SP)
                /\ graph[A].id \in IdSet(filtered)
                /\ \A i \in 1..Len(graph) :
                       ~Touches(graph[i], RemovalSet(
                            graph, args.exception_subprocess_name))
                           => graph[i].id \in IdSet(filtered)

\* C2 amended: B, SP and the targets of the edges leaving SP are gone; A
\* is kept exactly when it touches no id of the removal set (it is removed
\* when an edge leads from an exception subprocess to A); every item that
\* touches no id of the removal set is kept.
C2_ErrorHandlingRemoved ==
    pc = "filtered" =>
        \A A \in 1..Len(graph), B \in 1..Len(graph), SP \in 1..Len(graph) :
            ErrorHandlingCase(graph, A, B, SP) =>
                /\ RegionRemoved(graph, B, SP)
                /\ graph[A].id \in IdSet(filtered)
                       <=> ~Touches(graph[A], RemovalSetAmended(
                               graph, args.exception_subprocess_name))
                /\ \A i \in 1..Len(graph) :
                       ~Touches(graph[i], RemovalSetAmended(
                            graph, args.exception_subprocess_name))
                           => graph[i].id \in IdSet(filtered)

\* C2 witness: the case with A kept, and a node downstream of SP removed
C2_Witness ==
    /\ pc = "filtered"
    /\ \E A \in 1..Len(graph), B \in 1..Len(graph), SP \in 1..Len(graph) :
           /\ ErrorHandlingCase(graph, A, B, SP)
           /\ graph[A].id \in IdSet(filtered)
           /\ \E i \in 1..Len(graph), X \in 1..Len(graph) :
                  /\ graph[i].cls = "Edge"
                  /\ graph[i].source_node = graph[SP].id
                  /\ graph[X].id = graph[i].target_node
                  /\ graph[X].cls = "Node"
                  /\ graph[X].id \notin IdSet(filtered)

-----------------------------------------------------------------------------
(* Properties of the Subprocess constructor and of the dispatch *)

\* the element dispatched last
Dispatched == doc[Len(doc)]

\* the positions of the children of a built children graph that are
\* start (end) events
EventsOf(children, local) ==
    {i \in 1..Len(children) :
        IsNode(children[i]) /\ children[i].tag = Bpmn(local)}

\* the children graph Subprocess.from_element builds for an element
ChildrenOf(element) == Graph_init(element.children, <<>>, 0).graph

Min(S) == CHOOSE i \in S : \A j \in S : i <= j

\* C4 as stated: constructing a Subprocess succeeds only if its children
\* hold exactly one startEvent and exactly one endEvent, and fails if either
\* is missing or there is more than one of either.
C4_Original ==
    (doc # <<>> /\ Dispatched \in SubProcessElements) =>
        (pc # "failed" <=>
            /\ Cardinality(EventsOf(ChildrenOf(Dispatched), "startEvent")) = 1
            /\ Cardinality(EventsOf(ChildrenOf(Dispatched), "endEvent")) = 1)

\* C4 amended: constructing a Subprocess (from an element with id and name
\* whose children build) succeeds exactly if its children graph holds at
\* least one startEvent node and at least one endEvent node; with none of
\* either it fails with an IndexError and adds nothing; with several it
\* succeeds and takes the first of them in the children's order as start
\* (end) node, never a node of another tag.
C4_SubprocessNeedsStartAndEnd ==
    (doc # <<>> /\ Dispatched \in SubProcessElements) =>
        LET children == ChildrenOf(Dispatched)
            starts == EventsOf(children, "startEvent")
            ends == EventsOf(children, "endEvent")
        IN IF starts # {} /\ ends # {}
           THEN /\ pc # "failed"
                /\ get_item(graph, Dispatched.id).cls = "Subprocess"
                /\ get_item(graph, Dispatched.id).children = children
                /\ get_item(graph, Dispatched.id).start_node
                       = children[Min(starts)].id
                /\ get_item(graph, Dispatched.id).end_node
                       = children[Min(ends)].id
           ELSE /\ pc = "failed"
                /\ error = IndexError
                /\ get_item(graph, Dispatched.id).cls = "NoneType"

\* C4 witness: a Subprocess built from children with two start events
C4_Witness ==
    /\ doc # <<>>
    /\ Dispatched \in SubProcessElements
    /\ pc # "failed"
    /\ Cardinality(EventsOf(ChildrenOf(Dispatched), "startEvent")) = 2
    /\ get_item(graph, Dispatched.id).cls = "Subprocess"

\* the local names with a dedicated handler, as the specification lists them
DedicatedLocals ==
    {"subProcess", "boundaryEvent", "serviceTask", "userTask", "callActivity",
     "intermediateCatchEvent", "exclusiveGateway", "parallelGateway",
     "startEvent", "endEvent"}

\* the local name of a raw tag, with or without a namespace
LocalName(tag) == tag[Len(tag)]

\* C6: a dedicated handler invoked on an element of the wrong tag signals
\* "unsuitable"; the dispatch catches it and goes on to the next handler,
\* and the build does not fail.
C6_UnsuitableIsCaught ==
    (/\ doc # <<>>
     /\ Len(Dispatched.tag) = 4
     /\ LocalName(Dispatched.tag) \in
            {"subProcess", "boundaryEvent", "serviceTask", "userTask",
             "callActivity", "intermediateCatchEvent"}
     /\ Dispatched.tag # Bpmn(LocalName(Dispatched.tag)))
        => /\ error # UnsuitableHandlerException
           /\ Dispatched.condition = None => pc # "failed"

\* C8: an element whose local tag name has no dedicated handler becomes an
\* Edge if it has the attributes id, sourceRef and targetRef, else a plain
\* Node if it has an id, else nothing: no error, the Graph unchanged.
C8_GenericDispatch ==
    [][(/\ doc' # doc
        /\ LocalName(doc'[Len(doc')].tag) \notin DedicatedLocals) =>
           LET element == doc'[Len(doc')]
               item == get_item(graph', element.id)
           IN /\ pc' # "failed"
              /\ error' = NoError
              /\ IF /\ element.id # None
                    /\ element.sourceRef # None
                    /\ element.targetRef # None
                 THEN /\ item.cls = "Edge"
                      /\ item.source_node = element.sourceRef
                      /\ item.target_node = element.targetRef
                 ELSE IF element.id # None
                      THEN item.cls = "Node" /\ item.tag = element.tag
                      ELSE graph' = graph]_vars

-----------------------------------------------------------------------------
(* Properties of the pipeline *)

\* the closing line of a complete diagram
ClosingLine == Line("text", "}", None, -1)

\* C5: a run that ends in a fatal error has not opened the output file and
\* has written nothing; once the file is opened the complete diagram is
\* written.
C5_NoPartialOutput ==
    /\ pc = "failed" => (~file_open /\ file = <<>>)
    /\ file_open => (pc = "saved" /\ file[Len(file)] = ClosingLine)

\* C7: Graph.load fails with a structural error, and nothing is written,
\* whenever the document holds zero or more than one process element; a
\* Graph is built only when there is exactly one.
C7_LoadExactlyOne ==
    /\ (process_elements # 1 /\ pc # "start") =>
           /\ pc = "failed"
           /\ error = RuntimeError
           /\ graph = <<>>
           /\ ~file_open
           /\ file = <<>>
    /\ pc \in {"build", "loaded", "filtered", "saved"} => process_elements = 1

\* C7 witness: a document with two process elements has been refused
C7_Witness ==
    /\ process_elements = 2
    /\ pc = "failed"
    /\ error = RuntimeError
    /\ ~file_open

\* the items the elements read so far have produced, in document order
RECURSIVE Inserted(_, _)
Inserted(elements, idx) ==
    IF elements = <<>> THEN <<>>
    ELSE LET item == process_element(Head(elements), idx)
         IN IF item.err # NoError THEN <<>>
            ELSE (IF item.item.cls = "NoneType" THEN <<>> ELSE <<item.item>>)
                 \o Inserted(Tail(elements), item.idx)

FirstInsertion(inserted, id) ==
    CHOOSE i \in 1..Len(inserted) :
        /\ inserted[i].id = id
        /\ \A j \in 1..Len(inserted) : inserted[j].id = id => i <= j

LastInsertion(inserted, id) ==
    CHOOSE i \in 1..Len(inserted) :
        /\ inserted[i].id = id
        /\ \A j \in 1..Len(inserted) : inserted[j].id = id => j <= i

\* one stored item per inserted id, the last one inserted with that id
LastWriteWins(g, inserted) ==
    /\ IdSet(g) = IdSet(inserted)
    /\ Cardinality(IdSet(g)) = Len(g)
    /\ \A k \in 1..Len(g) : g[k] = inserted[LastInsertion(inserted, g[k].id)]

\* the returned Graph holds items of the built Graph, each id once, in the
\* built Graph's order
SubGraph(f, g) ==
    /\ Cardinality(IdSet(f)) = Len(f)
    /\ \A k \in 1..Len(f) : \E i \in 1..Len(g) : g[i] = f[k]
    /\ \A j \in 1..Len(f), k \in 1..Len(f) :
           j < k => \E i \in 1..Len(g), l \in 1..Len(g) :
                        i < l /\ g[i] = f[j] /\ g[l] = f[k]

\* the id a rendered line shows: a node's id, an edge's id when show_flows
\* has put it on the label
LineId(line) ==
    IF line.kind = "edge" /\ line.label # <<>>
    THEN line.label[Len(line.label)] ELSE line.a

\* the saved file lists the items of a graph of plain nodes and edges in
\* the graph's order
EmittedInOrder ==
    (/\ pc = "saved"
     /\ args.show_flows
     /\ \A k \in 1..Len(filtered) :
            filtered[k].cls \notin {"Subprocess", "BoundaryEvent"})
        => /\ Len(file) = Len(DOT_HEADERS) + Len(filtered) + 1
           /\ \A k \in 1..Len(filtered) :
                  LineId(file[Len(DOT_HEADERS) + k]) = filtered[k].id

\* C9 as stated: the Graph holds one item per inserted id, the last one
\* inserted with that id, and the stored items are iterated and serialized
\* in the order in which they were inserted.
C9_Original ==
    pc # "start" =>
        LET inserted == Inserted(doc, 0)
        IN /\ LastWriteWins(graph, inserted)
           /\ \A j \in 1..Len(graph), k \in 1..Len(graph) :
                  j < k => LastInsertion(inserted, graph[j].id)
                               < LastInsertion(inserted, graph[k].id)
           /\ pc \in {"filtered", "saved"} => SubGraph(filtered, graph)
           /\ EmittedInOrder

\* C9 amended: the Graph holds one item per inserted id, the last one
\* inserted with that id, and the stored items are iterated and serialized
\* in the order in which their ids were first inserted: an overwriting
\* item takes the place of the item it replaces.
C9_LastWriteWinsInPlace ==
    pc # "start" =>
        LET inserted == Inserted(doc, 0)
        IN /\ LastWriteWins(graph, inserted)
           /\ \A j \in 1..Len(graph), k \in 1..Len(graph) :
                  j < k => FirstInsertion(inserted, graph[j].id)
                               < FirstInsertion(inserted, graph[k].id)
           /\ pc \in {"filtered", "saved"} => SubGraph(filtered, graph)
           /\ EmittedInOrder

\* C9 witness: a saved graph whose first item replaced an item of the same
\* id after the second item was inserted
C9_Witness ==
    /\ pc = "saved"
    /\ args.show_flows
    /\ Len(doc) = 3
    /\ Len(filtered) = 2
    /\ doc[1] # doc[3]
    /\ doc[1].id = doc[3].id
    /\ filtered[1].cls = "Edge"
    /\ filtered[1].id = doc[3].id
    /\ filtered[1].target_node = doc[3].targetRef
    /\ filtered[1].source_node = doc[3].sourceRef

\* a user task of g, at any depth, whose label cannot be built
RECURSIVE LabelRaises(_)
LabelRaises(g) ==
    \E k \in 1..Len(g) :
        \/ /\ g[k].cls = "UserTask"
           /\ args.show_task_listeners
           /\ ~args.show_package_names
           /\ \E i \in 1..Len(g[k].listeners) :
                  g[k].listeners[i].class_name = None
        \/ g[k].cls = "Subprocess" /\ LabelRaises(g[k].children)

\* the endpoint an edge is drawn from (to): the end (start) event of the
\* top-level Subprocess of that id, else the id itself
DrawnSource(g, edge) ==
    IF \E k \in 1..Len(g) :
           g[k].cls = "Subprocess" /\ g[k].id = edge.source_node
    THEN get_item(g, edge.source_node).end_node
    ELSE edge.source_node

DrawnTarget(g, edge) ==
    IF \E k \in 1..Len(g) :
           g[k].cls = "Subprocess" /\ g[k].id = edge.target_node
    THEN get_item(g, edge.target_node).start_node
    ELSE edge.target_node

\* C10: an edge is drawn from the end event of a top-level Subprocess
\* source and to the start event of a top-level Subprocess target; every
\* other endpoint is drawn as the nominal id, and rendering never fails
\* because of the lookup.
C10_EdgeEndpoints ==
    /\ (pc = "failed" /\ file_open) => LabelRaises(filtered)
    /\ pc = "saved" =>
           \A k \in 1..Len(filtered) :
               filtered[k].cls = "Edge" =>
                   \E i \in 1..Len(file) :
                       /\ file[i].kind = "edge"
                       /\ file[i].a = DrawnSource(filtered, filtered[k])
                       /\ file[i].b = DrawnTarget(filtered, filtered[k])
                       /\ args.show_flows =>
                              file[i].label = <<filtered[k].id>>

-----------------------------------------------------------------------------
(* The cluster indices of the Subprocess items *)

\* the indices of the Subprocess items of a graph in the order of their
\* construction: the children graph of a Subprocess is built before
\* Subprocess.__init__ takes its own index
RECURSIVE ClusterIndices(_)
ClusterIndices(g) ==
    IF g = <<>>
    THEN <<>>
    ELSE (IF Head(g).cls = "Subprocess"
          THEN ClusterIndices(Head(g).children) \o <<Head(g).index>>
          ELSE <<>>) \o ClusterIndices(Tail(g))

\* C11: in every run of main(), a second or later run of the same process
\* included, the k-th Subprocess constructed has cluster index k-1, and the
\* graph built is the one that the same document gives in a first run.
C11_ClusterIndexPerRun ==
    pc = "loaded" =>
        /\ ClusterIndices(graph) =
               [k \in 1..Len(ClusterIndices(graph)) |-> k - 1]
        /\ graph = Graph_init(doc, <<>>, 0).graph

====
